---- MODULE Spec2Model ----
(***************************************************************************)
(* The camera controller of sdl_viewer (src/sdl_viewer/src/camera.rs) as a *)
(* state machine: one variable per field of struct Camera, one action per  *)
(* public operation.                                                       *)
(*                                                                         *)
(* f32 values are fixed-point numbers with the IEEE special values the     *)
(* code can produce by dividing by a zero width or height: a value is      *)
(* <<0, n>> (finite, n in the unit of its quantity), <<1, 1>> (+inf),      *)
(* <<1, -1>> (-inf) or <<2, 0>> (NaN).  A sum is rounded to the 24         *)
(* significant bits of an f32, counted in units; a product or quotient is  *)
(* rounded where its unit conversion divides.                              *)
(*   angles                 1e-6 rad      (theta, phi, delta_rotation)     *)
(*   angular velocity       1e-3 rad/s    (rotation_speed)                 *)
(*   elapsed_seconds        1e-3 s                                         *)
(*   pan                    1e-2                                           *)
(*   movement_speed         1e-3                                           *)
(*   displacement           1e-5                                           *)
(*   sines, cosines, aspect 1e-3                                           *)
(***************************************************************************)
EXTENDS Integers, Sequences, FiniteSets, TLC

VARIABLES
    moving_backward, moving_forward, moving_left, moving_right,
    moving_down, moving_up,
    turning_left, turning_right, turning_down, turning_up,
    width, height,
    movement_speed, theta, phi, pan, rotation_speed, delta_rotation,
    moved, transform, projection_matrix,
    \* the caller's side
    snapshot,    \* the State last returned by state(), <<>> before any
    panicked,    \* TRUE once an operation has panicked
    \* history, for stating the properties
    call,        \* the last operation and its arguments
    ret,         \* what the last update returned
    updates,     \* TRUE once update has been called
    since,       \* names of the operations called since the last update
    staged,      \* the staging calls since the last update, in call order
    before,      \* what the last update found when it was called, and in
                 \* before.start what the update before that had found
    shown,       \* the pose and the projection as the last update left them
    \* bounds of the exploration
    steps, wheelUps

flagVars == <<moving_backward, moving_forward, moving_left, moving_right,
              moving_down, moving_up,
              turning_left, turning_right, turning_down, turning_up>>
sizeVars == <<width, height, projection_matrix>>
poseVars == <<theta, phi, transform>>
accVars == <<pan, rotation_speed, delta_rotation>>
camVars == <<flagVars, sizeVars, poseVars, accVars, movement_speed, moved>>
histVars == <<call, ret, updates, since, staged, before, shown>>
vars == <<camVars, snapshot, panicked, histVars, steps, wheelUps>>

-----------------------------------------------------------------------------
(* Bounds of the exploration.                                              *)

MaxSteps == 4         \* operations in a run of Spec
MaxWheelUp == 1       \* mouse_wheel calls with a positive delta (SpecWheel)
MaxWheelSteps == 1    \* operations other than mouse_wheel (SpecWheel)
MaxCalls == 3         \* operations in a run of SpecOrder
MaxFrames == 4        \* operations in a run of SpecFrames

-----------------------------------------------------------------------------
(* f32 arithmetic.                                                         *)

F(n) == <<0, n>>
PInf == <<1, 1>>
NInf == <<1, -1>>
NaN == <<2, 0>>

IsFin(a) == a[1] = 0
IsInf(a) == a[1] = 1
IsNaN(a) == a[1] = 2

Sgn(n) == IF n > 0 THEN 1 ELSE IF n < 0 THEN -1 ELSE 0
Abs(n) == IF n < 0 THEN -n ELSE n

\* a / b rounded to the nearest integer, halves away from zero (b # 0)
DivR(a, b) == Sgn(a) * Sgn(b) * ((2 * Abs(a) + Abs(b)) \div (2 * Abs(b)))

\* a * b / d rounded as DivR, computed without leaving 32 bits (d > 0)
MulDivR(a, b, d) ==
    LET q == Abs(a) \div d
        r == Abs(a) % d
    IN  Sgn(a) * Sgn(b) * (q * Abs(b) + DivR(r * Abs(b), d))

\* the sign of a value: -1, 0, 1 (NaN has none)
FSgn(a) == IF IsNaN(a) THEN 0 ELSE Sgn(a[2])

FNeg(a) == <<a[1], -a[2]>>

\* the significant bits of an f32
Mantissa == 24

\* the distance between neighbouring f32 values at the magnitude of n units
Spacing(n) ==
    LET k == Abs(n) \div 2^Mantissa
    IN  CHOOSE q \in {2^i : i \in 0..7} : q > k /\ q \div 2 <= k

\* n units rounded to the nearest f32 value, halves to the even one
RoundF32(n) ==
    LET q == Spacing(n)
        m == Abs(n) \div q
        r == Abs(n) % q
        up == IF 2 * r > q \/ (2 * r = q /\ m % 2 = 1) THEN 1 ELSE 0
    IN  Sgn(n) * (m + up) * q

FAdd(a, b) ==
    IF IsNaN(a) \/ IsNaN(b) THEN NaN
    ELSE IF IsInf(a) /\ IsInf(b) THEN (IF a = b THEN a ELSE NaN)
    ELSE IF IsInf(a) THEN a
    ELSE IF IsInf(b) THEN b
    ELSE F(RoundF32(a[2] + b[2]))

FSub(a, b) == FAdd(a, FNeg(b))

\* a * b, the finite product divided by the unit d of the conversion
FMul(a, b, d) ==
    IF IsNaN(a) \/ IsNaN(b) THEN NaN
    ELSE IF IsInf(a) \/ IsInf(b)
         THEN (IF FSgn(a) * FSgn(b) = 0 THEN NaN
               ELSE <<1, FSgn(a) * FSgn(b)>>)
    ELSE F(MulDivR(a[2], b[2], d))

\* a / (w as f32) for an i32 w: x/0 is an infinity, 0/0 is NaN
FDivInt(a, w) ==
    IF IsNaN(a) THEN NaN
    ELSE IF IsInf(a) THEN (IF w < 0 THEN FNeg(a) ELSE a)
    ELSE IF w = 0 THEN (IF a[2] = 0 THEN NaN ELSE <<1, Sgn(a[2])>>)
    ELSE F(DivR(a[2], w))

\* a > 0, a == 0 and f32::max
FGtZero(a) == ~IsNaN(a) /\ a[2] > 0
FIsZero(a) == IsFin(a) /\ a[2] = 0
FLess(a, b) ==
    /\ ~IsNaN(a) /\ ~IsNaN(b)
    /\ IF IsInf(a) THEN a[2] < 0 /\ a # b
       ELSE IF IsInf(b) THEN b[2] > 0
       ELSE a[2] < b[2]
FMax(a, b) == IF IsNaN(a) THEN b ELSE IF IsNaN(b) THEN a
              ELSE IF FLess(a, b) THEN b ELSE a

\* vectors
VZero == <<F(0), F(0), F(0)>>
VAdd(u, v) == <<FAdd(u[1], v[1]), FAdd(u[2], v[2]), FAdd(u[3], v[3])>>
VScale(u, s, d) == <<FMul(u[1], s, d), FMul(u[2], s, d), FMul(u[3], s, d)>>
\* the squared length is only ever compared with zero: units are squared
Magnitude2(u) ==
    FAdd(FAdd(FMul(u[1], u[1], 1), FMul(u[2], u[2], 1)), FMul(u[3], u[3], 1))
VFinite(u) == IsFin(u[1]) /\ IsFin(u[2]) /\ IsFin(u[3])

RotationAngle_zero == [theta |-> F(0), phi |-> F(0)]

-----------------------------------------------------------------------------
(* Constants of the program, in the units above.                           *)

InitialSpeed == 10000        \* movement_speed: 10.
MinSpeed == 10               \* the floor of mouse_wheel: 0.01
TURNING_SPEED == 150         \* Rad(0.15)
TwoPi == 6283185             \* 2. * f32::consts::PI
DragPanScale == 10000        \* the factor 100. of mouse_drag_pan
AspectUnit == 1000
TrigUnit == 1000
InitialZ == 15000000         \* disp: (0, 0, 150)

-----------------------------------------------------------------------------
(* cgmath: Quaternion::from_angle_z(theta) * Quaternion::from_angle_x(phi) *)
(* is kept as the pair of angles it is built from; rotate_vector applies   *)
(* Rz(z) * Rx(x) with sines and cosines computed from their series.        *)

Quat(t, p) == [z |-> t, x |-> p]
Quaternion_one == Quat(F(0), F(0))

\* sine and cosine of x in 0 .. pi/2 (x in 1e-6 rad), in TrigUnit
SinQ(x) ==
    LET xm == DivR(x, 1000)
        x2 == DivR(xm * xm, 1000)
        t3 == DivR(xm * x2, 6000)
        t5 == DivR(t3 * x2, 20000)
        t7 == DivR(t5 * x2, 42000)
    IN  xm - t3 + t5 - t7
CosQ(x) ==
    LET xm == DivR(x, 1000)
        x2 == DivR(xm * xm, 1000)
        c2 == DivR(TrigUnit * x2, 2000)
        c4 == DivR(c2 * x2, 12000)
        c6 == DivR(c4 * x2, 30000)
        c8 == DivR(c6 * x2, 56000)
    IN  TrigUnit - c2 + c4 - c6 + c8

\* sine and cosine of a finite angle a (an integer, 1e-6 rad), in TrigUnit
Sin(a) ==
    LET m == a % TwoPi
        h == TwoPi \div 2
        q == TwoPi \div 4
    IN  IF m <= q THEN SinQ(m)
        ELSE IF m <= h THEN SinQ(h - m)
        ELSE IF m <= h + q THEN -SinQ(m - h)
        ELSE -SinQ(TwoPi - m)
Cos(a) ==
    LET m == a % TwoPi
        h == TwoPi \div 2
        q == TwoPi \div 4
    IN  IF m <= q THEN CosQ(m)
        ELSE IF m <= h THEN -CosQ(h - m)
        ELSE IF m <= h + q THEN -CosQ(m - h)
        ELSE CosQ(TwoPi - m)

\* rot.rotate_vector(v); an operand that is not finite leaves NaN everywhere
RotateVector(rot, v) ==
    IF ~(IsFin(rot.z) /\ IsFin(rot.x) /\ VFinite(v)) THEN <<NaN, NaN, NaN>>
    ELSE LET cz == Cos(rot.z[2])
             sz == Sin(rot.z[2])
             cx == Cos(rot.x[2])
             sx == Sin(rot.x[2])
             x1 == v[1][2]
             y1 == MulDivR(v[2][2], cx, TrigUnit) - MulDivR(v[3][2], sx, TrigUnit)
             z1 == MulDivR(v[2][2], sx, TrigUnit) + MulDivR(v[3][2], cx, TrigUnit)
         IN  << F(MulDivR(x1, cz, TrigUnit) - MulDivR(y1, sz, TrigUnit)),
                F(MulDivR(x1, sz, TrigUnit) + MulDivR(y1, cz, TrigUnit)),
                F(z1) >>

\* Decomposed::inverse_transform is None when the scale is zero and Some
\* otherwise, whatever the rotation and the displacement hold
InverseTransformIsNone(t) == t.scale = 0

\* Matrix4::from(PerspectiveFov { fovy: 45 deg, aspect, near: 0.1, far: 10000 })
Perspective(aspect) == [fovy_deg |-> 45, aspect |-> aspect, far |-> 10000]

\* cgmath asserts on the aspect ratio before it builds the matrix: a zero
\* ratio is refused by every version, a negative or NaN one by some.
PerspectiveMayPanic(aspect) == ~FGtZero(aspect)
PerspectiveMayReturn(aspect) == ~FIsZero(aspect)

-----------------------------------------------------------------------------
(* The inputs the operations are called with.                              *)

Flags == {"moving_backward", "moving_forward", "moving_left", "moving_right",
          "moving_down", "moving_up",
          "turning_left", "turning_right", "turning_down", "turning_up"}
TurningFlags == {"turning_left", "turning_right", "turning_down", "turning_up"}
\* the keys pressed and released in Spec
Keys == {"moving_forward", "moving_right", "moving_left",
         "turning_left", "turning_down"}

Elapsed == {0, 1000}                           \* milliseconds
Sizes == {<<2, 4>>, <<2, 0>>, <<0, 2>>}
InitialSizes == {<<4, 2>>}
DragPanInputs == {<<1, 0>>, <<0, 1>>}          \* pixels
DragRotateInputs == {<<1, 0>>, <<-1, 0>>, <<0, 1>>}
PanInputs == {<<0, 0, -100>>}                  \* pan(0, 0, -1)
RotateInputs == {<<0, 1571>>}                  \* rotate(0, pi/2)
WheelInputs == {-1, 0, 1}
StepWheelInputs == {-1, 1}
\* a State that comes from the persistence layer instead of state()
LoadedStates ==
    { [transform |-> [scale |-> 1, rot |-> Quat(F(TwoPi \div 4), F(0)),
                      disp |-> VZero],
       phi |-> F(0), theta |-> F(TwoPi \div 4)] }

StagingOps == {"mouse_drag_pan", "mouse_drag_rotate", "pan", "rotate"}

-----------------------------------------------------------------------------
(* Pieces of the operations.                                               *)

Flag(f) ==
    CASE f = "moving_backward" -> moving_backward
      [] f = "moving_forward" -> moving_forward
      [] f = "moving_left" -> moving_left
      [] f = "moving_right" -> moving_right
      [] f = "moving_down" -> moving_down
      [] f = "moving_up" -> moving_up
      [] f = "turning_left" -> turning_left
      [] f = "turning_right" -> turning_right
      [] f = "turning_down" -> turning_down
      [] f = "turning_up" -> turning_up

NoFlagHeld == \A f \in Flags : ~Flag(f)

\* state(): the State it returns
StateOf == [transform |-> transform, phi |-> phi, theta |-> theta]

\* (a slip: phi and theta are exchanged)
RestoredSwapped(state) ==
    [transform |-> state.transform, phi |-> state.theta, theta |-> state.phi]

\* (a slip: the transform is loaded with its scale dropped)
RestoredFlat(state) ==
    [transform |-> [state.transform EXCEPT !.scale = 0],
     phi |-> state.phi, theta |-> state.theta]

\* set_state: the pose it loads
Restored(state) ==
    [transform |-> state.transform, phi |-> state.phi, theta |-> state.theta]

\* set_size: the projection it computes
Projection(w, h) == Perspective(FDivInt(F(w * AspectUnit), h))

\* update: the local pan built from the movement flags
KeyPan ==
    << (IF moving_right THEN 1 ELSE 0) - (IF moving_left THEN 1 ELSE 0),
       (IF moving_up THEN 1 ELSE 0) - (IF moving_down THEN 1 ELSE 0),
       (IF moving_backward THEN 1 ELSE 0) - (IF moving_forward THEN 1 ELSE 0) >>

\* pan.normalize() of a vector of -1, 0, 1: 1, 1/sqrt(2) or 1/sqrt(3) a component
Normalize(k) ==
    LET n == k[1] * k[1] + k[2] * k[2] + k[3] * k[3]
        u == CASE n = 1 -> 100 [] n = 2 -> 71 [] n = 3 -> 58
    IN  <<F(k[1] * u), F(k[2] * u), F(k[3] * u)>>

\* update: self.pan once the keys are added
PanWithKeys ==
    LET k == KeyPan
    IN  IF k[1] * k[1] + k[2] * k[2] + k[3] * k[3] > 0
        THEN VAdd(pan, Normalize(k))
        ELSE pan

\* (a slip: every update counts as a frame of 16 ms, whatever the time elapsed)
ElapsedFrame(ms) == F(16)

\* update: elapsed.num_milliseconds() as f32 / 1000.
ElapsedSeconds(ms) == F(ms)

\* update: self.rotation_speed once the turning keys are added
SpeedWithKeys ==
    LET t1 == IF turning_left THEN FAdd(rotation_speed.theta, F(TURNING_SPEED))
              ELSE rotation_speed.theta
        t2 == IF turning_right THEN FSub(t1, F(TURNING_SPEED)) ELSE t1
        p1 == IF turning_up THEN FAdd(rotation_speed.phi, F(TURNING_SPEED))
              ELSE rotation_speed.phi
        p2 == IF turning_down THEN FSub(p1, F(TURNING_SPEED)) ELSE p1
    IN  [theta |-> t2, phi |-> p2]

\* update: the tests that guard the two "apply" blocks
PanApplies(p) == FGtZero(Magnitude2(p))
DragPending == ~FIsZero(delta_rotation.theta) \/ ~FIsZero(delta_rotation.phi)
RotationApplies(rs) ==
    \/ ~FIsZero(rs.theta) \/ ~FIsZero(rs.phi)
    \/ ~FIsZero(delta_rotation.theta) \/ ~FIsZero(delta_rotation.phi)

\* (a slip: the pan is rotated by the orientation this update turns to)
TranslationAfterTurn(p, es) ==
    RotateVector(IF DragPending
                 THEN Quat(FAdd(theta, delta_rotation.theta),
                           FAdd(phi, delta_rotation.phi))
                 ELSE transform.rot,
                 VScale(VScale(p, movement_speed, 1000), es, 1))

\* update: the translation added to transform.disp
Translation(p, es) ==
    RotateVector(transform.rot, VScale(VScale(p, movement_speed, 1000), es, 1))

\* (a slip: the drag delta and the angular velocity are both applied)
TurnedAnglesBlended(rs, es) ==
    [theta |-> FAdd(FAdd(theta, delta_rotation.theta), FMul(rs.theta, es, 1)),
     phi |-> FAdd(FAdd(phi, delta_rotation.phi), FMul(rs.phi, es, 1))]

\* update: theta and phi when a rotation is applied
TurnedAngles(rs, es) ==
    IF DragPending
    THEN [theta |-> FAdd(theta, delta_rotation.theta),
          phi |-> FAdd(phi, delta_rotation.phi)]
    ELSE [theta |-> FAdd(theta, FMul(rs.theta, es, 1)),
          phi |-> FAdd(phi, FMul(rs.phi, es, 1))]

\* (a slip: the rotation is rebuilt from theta alone)
RebuiltAround(angles) == Quat(angles.theta, F(0))

\* update: transform.rot rebuilt from the new theta and phi
Rebuilt(angles) == Quat(angles.theta, angles.phi)

\* (a slip: update leaves self.moved as it is)
ClearedMovedKept == moved

\* update: self.moved = false, and the value it returns
ClearedMoved == FALSE
UpdateResult(p, rs) == moved \/ PanApplies(p) \/ RotationApplies(rs)

\* (slips: update forgets to zero rotation_speed, or delta_rotation)
DrainedKeepsSpeed ==
    [pan |-> VZero, rotation_speed |-> rotation_speed,
     delta_rotation |-> RotationAngle_zero]
DrainedKeepsDrag ==
    [pan |-> VZero, rotation_speed |-> RotationAngle_zero,
     delta_rotation |-> delta_rotation]

\* (a slip: the angular velocity a drag has overridden is kept for later)
DrainedDefers ==
    [pan |-> VZero,
     rotation_speed |-> IF DragPending THEN rotation_speed
                        ELSE RotationAngle_zero,
     delta_rotation |-> RotationAngle_zero]

\* update: the accumulators as it leaves them
Drained ==
    [pan |-> VZero, rotation_speed |-> RotationAngle_zero,
     delta_rotation |-> RotationAngle_zero]

\* (a slip: both pixel deltas are divided by the width)
DragPanByWidth(delta_x, delta_y) ==
    << FSub(pan[1], FDivInt(F(DragPanScale * delta_x), width)),
       FAdd(pan[2], FDivInt(F(DragPanScale * delta_y), width)),
       pan[3] >>

\* mouse_drag_pan: self.pan after the call
DragPan(delta_x, delta_y) ==
    << FSub(pan[1], FDivInt(F(DragPanScale * delta_x), width)),
       FAdd(pan[2], FDivInt(F(DragPanScale * delta_y), height)),
       pan[3] >>

\* mouse_drag_rotate: self.delta_rotation after the call
DragRotate(delta_x, delta_y) ==
    [theta |-> FSub(delta_rotation.theta, FDivInt(F(TwoPi * delta_x), width)),
     phi |-> FSub(delta_rotation.phi, FDivInt(F(TwoPi * delta_y), height))]

\* (slips: the floor is not applied; the step is 0.1 instead of a tenth)
WheelSpeedUnclamped(delta) ==
    FAdd(movement_speed, FMul(F(Sgn(delta)), movement_speed, 10))
WheelSpeedAbsolute(delta) ==
    FMax(FAdd(movement_speed, F(Sgn(delta) * 100)), F(MinSpeed))

\* mouse_wheel: self.movement_speed after the call
WheelSpeed(delta) ==
    FMax(FAdd(movement_speed, FMul(F(Sgn(delta)), movement_speed, 10)),
         F(MinSpeed))

-----------------------------------------------------------------------------
(* The operations.  Each records itself in the history variables.          *)

Called(name, a, b, c) ==
    /\ call' = [op |-> name, args |-> <<a, b, c>>]
    /\ since' = since \cup {name}
    /\ staged' = IF name \in StagingOps
                 THEN Append(staged, [op |-> name, a |-> a, b |-> b, c |-> c,
                                      w |-> width, h |-> height])
                 ELSE staged
    /\ UNCHANGED <<ret, updates, before, shown>>

\* the fields and the history as an update finds them
Found ==
    [theta |-> theta, phi |-> phi, transform |-> transform,
     pan |-> pan, rotation_speed |-> rotation_speed,
     delta_rotation |-> delta_rotation, moved |-> moved,
     call |-> call, ret |-> ret, updates |-> updates,
     since |-> since, staged |-> staged, shown |-> shown,
     start |-> [theta |-> before.theta, phi |-> before.phi,
                transform |-> before.transform, staged |-> before.staged]]

\* what a renderer draws the scene with
View ==
    [transform |-> transform, theta |-> theta, phi |-> phi,
     projection_matrix |-> projection_matrix]

Init ==
    /\ moving_backward = FALSE /\ moving_forward = FALSE
    /\ moving_left = FALSE /\ moving_right = FALSE
    /\ moving_down = FALSE /\ moving_up = FALSE
    /\ turning_left = FALSE /\ turning_right = FALSE
    /\ turning_down = FALSE /\ turning_up = FALSE
    /\ movement_speed = F(InitialSpeed)
    /\ moved = TRUE
    /\ theta = F(0) /\ phi = F(0)
    /\ pan = VZero
    /\ rotation_speed = RotationAngle_zero
    /\ delta_rotation = RotationAngle_zero
    /\ transform = [scale |-> 1, rot |-> Quaternion_one,
                    disp |-> <<F(0), F(0), F(InitialZ)>>]
    /\ \E s \in InitialSizes :
          /\ width = s[1] /\ height = s[2]
          /\ projection_matrix = Projection(s[1], s[2])
    /\ snapshot = <<>>
    /\ panicked = FALSE
    /\ call = [op |-> "new", args |-> <<0, 0, 0>>]
    /\ ret = FALSE /\ updates = FALSE
    /\ since = {} /\ staged = <<>>
    /\ before =
         [theta |-> theta, phi |-> phi, transform |-> transform,
          pan |-> pan, rotation_speed |-> rotation_speed,
          delta_rotation |-> delta_rotation, moved |-> moved,
          call |-> call, ret |-> ret, updates |-> updates,
          since |-> since, staged |-> staged, shown |-> View,
          start |-> [theta |-> theta, phi |-> phi,
                     transform |-> transform, staged |-> staged]]
    /\ shown = View
    /\ steps = 0 /\ wheelUps = 0

\* the windowing layer writes one of the public flags
SetFlag(f, b) ==
    /\ moving_backward' = IF f = "moving_backward" THEN b ELSE moving_backward
    /\ moving_forward' = IF f = "moving_forward" THEN b ELSE moving_forward
    /\ moving_left' = IF f = "moving_left" THEN b ELSE moving_left
    /\ moving_right' = IF f = "moving_right" THEN b ELSE moving_right
    /\ moving_down' = IF f = "moving_down" THEN b ELSE moving_down
    /\ moving_up' = IF f = "moving_up" THEN b ELSE moving_up
    /\ turning_left' = IF f = "turning_left" THEN b ELSE turning_left
    /\ turning_right' = IF f = "turning_right" THEN b ELSE turning_right
    /\ turning_down' = IF f = "turning_down" THEN b ELSE turning_down
    /\ turning_up' = IF f = "turning_up" THEN b ELSE turning_up
    /\ Called("set_flag", IF b THEN 1 ELSE 0, 0, 0)
    /\ UNCHANGED <<sizeVars, poseVars, accVars, movement_speed, moved,
                   snapshot, panicked>>

GetState ==
    /\ snapshot' = StateOf
    /\ Called("state", 0, 0, 0)
    /\ UNCHANGED <<camVars, panicked>>

\* (a slip: set_state also resets the accumulators)
SetStateResets(state) ==
    /\ transform' = Restored(state).transform
    /\ phi' = Restored(state).phi
    /\ theta' = Restored(state).theta
    /\ moved' = TRUE
    /\ pan' = VZero
    /\ rotation_speed' = RotationAngle_zero
    /\ delta_rotation' = RotationAngle_zero
    /\ Called("set_state", IF state = StateOf THEN 1 ELSE 0, 0, 0)
    /\ UNCHANGED <<flagVars, sizeVars, movement_speed, snapshot, panicked>>

\* (a slip: set_state does not mark the camera moved)
SetStateQuiet(state) ==
    /\ transform' = Restored(state).transform
    /\ phi' = Restored(state).phi
    /\ theta' = Restored(state).theta
    /\ Called("set_state", IF state = StateOf THEN 1 ELSE 0, 0, 0)
    /\ UNCHANGED <<flagVars, sizeVars, accVars, movement_speed, moved,
                   snapshot, panicked>>

\* set_state(state); the history notes whether state is what state() returns now
SetState(state) ==
    /\ transform' = Restored(state).transform
    /\ phi' = Restored(state).phi
    /\ theta' = Restored(state).theta
    /\ moved' = TRUE
    /\ Called("set_state", IF state = StateOf THEN 1 ELSE 0, 0, 0)
    /\ UNCHANGED <<flagVars, sizeVars, accVars, movement_speed,
                   snapshot, panicked>>

SetStateSaved == snapshot # <<>> /\ SetState(snapshot)
SetStateLoaded == \E state \in LoadedStates : SetState(state)

\* (a slip: set_size does not mark the camera moved)
SetSizeQuiet(w, h) ==
    /\ width' = w
    /\ height' = h
    /\ \/ /\ PerspectiveMayReturn(Projection(w, h).aspect)
          /\ projection_matrix' = Projection(w, h)
          /\ UNCHANGED <<panicked, moved>>
       \/ /\ PerspectiveMayPanic(Projection(w, h).aspect)
          /\ panicked' = TRUE
          /\ UNCHANGED <<projection_matrix, moved>>
    /\ Called("set_size", w, h, 0)
    /\ UNCHANGED <<flagVars, poseVars, accVars, movement_speed, snapshot>>

\* set_size: the fields are written before the projection is computed, so a
\* panic of cgmath leaves them written and nothing else done
SetSize(w, h) ==
    /\ width' = w
    /\ height' = h
    /\ \/ /\ PerspectiveMayReturn(Projection(w, h).aspect)
          /\ projection_matrix' = Projection(w, h)
          /\ moved' = TRUE
          /\ UNCHANGED panicked
       \/ /\ PerspectiveMayPanic(Projection(w, h).aspect)
          /\ panicked' = TRUE
          /\ UNCHANGED <<projection_matrix, moved>>
    /\ Called("set_size", w, h, 0)
    /\ UNCHANGED <<flagVars, poseVars, accVars, movement_speed, snapshot>>

\* (a slip: update releases the turning keys once it has applied them)
UpdateReleasesKeys(ms) ==
    LET p == PanWithKeys
        es == ElapsedSeconds(ms)
        rs == SpeedWithKeys
        angles == TurnedAngles(rs, es)
        result == UpdateResult(p, rs)
    IN  /\ moved' = ClearedMoved
        /\ theta' = IF RotationApplies(rs) THEN angles.theta ELSE theta
        /\ phi' = IF RotationApplies(rs) THEN angles.phi ELSE phi
        /\ transform' =
             [scale |-> transform.scale,
              rot |-> IF RotationApplies(rs)
                      THEN Rebuilt(angles)
                      ELSE transform.rot,
              disp |-> IF PanApplies(p)
                       THEN VAdd(transform.disp, Translation(p, es))
                       ELSE transform.disp]
        /\ pan' = Drained.pan
        /\ rotation_speed' = Drained.rotation_speed
        /\ delta_rotation' = Drained.delta_rotation
        /\ ret' = result
        /\ updates' = TRUE
        /\ call' = [op |-> "update", args |-> <<ms, 0, 0>>]
        /\ since' = {}
        /\ staged' = <<>>
        /\ before' = Found
        /\ turning_left' = FALSE /\ turning_right' = FALSE
        /\ turning_down' = FALSE /\ turning_up' = FALSE
        /\ UNCHANGED <<moving_backward, moving_forward, moving_left,
                       moving_right, moving_down, moving_up,
                       sizeVars, movement_speed, snapshot, panicked>>
        /\ shown' = View'

Update(ms) ==
    LET p == PanWithKeys
        es == ElapsedSeconds(ms)
        rs == SpeedWithKeys
        angles == TurnedAngles(rs, es)
        result == UpdateResult(p, rs)
    IN  /\ moved' = ClearedMoved
        /\ theta' = IF RotationApplies(rs) THEN angles.theta ELSE theta
        /\ phi' = IF RotationApplies(rs) THEN angles.phi ELSE phi
        /\ transform' =
             [scale |-> transform.scale,
              rot |-> IF RotationApplies(rs)
                      THEN Rebuilt(angles)
                      ELSE transform.rot,
              disp |-> IF PanApplies(p)
                       THEN VAdd(transform.disp, Translation(p, es))
                       ELSE transform.disp]
        /\ pan' = Drained.pan
        /\ rotation_speed' = Drained.rotation_speed
        /\ delta_rotation' = Drained.delta_rotation
        /\ ret' = result
        /\ updates' = TRUE
        /\ call' = [op |-> "update", args |-> <<ms, 0, 0>>]
        /\ since' = {}
        /\ staged' = <<>>
        /\ before' = Found
        /\ UNCHANGED <<flagVars, sizeVars, movement_speed, snapshot, panicked>>
        /\ shown' = View'

\* get_world_to_gl: the unwrap panics when the transform has no inverse
GetWorldToGl ==
    /\ panicked' = InverseTransformIsNone(transform)
    /\ Called("get_world_to_gl", 0, 0, 0)
    /\ UNCHANGED <<camVars, snapshot>>

\* (a slip: mouse_drag_pan also drops the drag rotation staged so far)
MouseDragPanClears(delta_x, delta_y) ==
    /\ pan' = DragPan(delta_x, delta_y)
    /\ delta_rotation' = RotationAngle_zero
    /\ Called("mouse_drag_pan", delta_x, delta_y, 0)
    /\ UNCHANGED <<flagVars, sizeVars, poseVars, rotation_speed,
                   movement_speed, moved, snapshot, panicked>>

MouseDragPan(delta_x, delta_y) ==
    /\ pan' = DragPan(delta_x, delta_y)
    /\ Called("mouse_drag_pan", delta_x, delta_y, 0)
    /\ UNCHANGED <<flagVars, sizeVars, poseVars, rotation_speed, delta_rotation,
                   movement_speed, moved, snapshot, panicked>>

MouseDragRotate(delta_x, delta_y) ==
    /\ delta_rotation' = DragRotate(delta_x, delta_y)
    /\ Called("mouse_drag_rotate", delta_x, delta_y, 0)
    /\ UNCHANGED <<flagVars, sizeVars, poseVars, pan, rotation_speed,
                   movement_speed, moved, snapshot, panicked>>

MouseWheel(delta) ==
    /\ movement_speed' = WheelSpeed(delta)
    /\ Called("mouse_wheel", delta, 0, 0)
    /\ UNCHANGED <<flagVars, sizeVars, poseVars, accVars, moved,
                   snapshot, panicked>>

Pan(x, y, z) ==
    /\ pan' = <<FAdd(pan[1], F(x)), FAdd(pan[2], F(y)), FAdd(pan[3], F(z))>>
    /\ Called("pan", x, y, z)
    /\ UNCHANGED <<flagVars, sizeVars, poseVars, rotation_speed, delta_rotation,
                   movement_speed, moved, snapshot, panicked>>

\* (a slip: up turns the camera around, around turns it up)
RotateSwapped(up, around) ==
    /\ rotation_speed' = [theta |-> FAdd(rotation_speed.theta, F(up)),
                          phi |-> FAdd(rotation_speed.phi, F(around))]
    /\ Called("rotate", up, around, 0)
    /\ UNCHANGED <<flagVars, sizeVars, poseVars, pan, delta_rotation,
                   movement_speed, moved, snapshot, panicked>>

Rotate(up, around) ==
    /\ rotation_speed' = [theta |-> FAdd(rotation_speed.theta, F(around)),
                          phi |-> FAdd(rotation_speed.phi, F(up))]
    /\ Called("rotate", up, around, 0)
    /\ UNCHANGED <<flagVars, sizeVars, poseVars, pan, delta_rotation,
                   movement_speed, moved, snapshot, panicked>>

-----------------------------------------------------------------------------
(* Spec: every run of at most MaxSteps operations on a new camera.         *)

Tick ==
    /\ ~panicked
    /\ steps < MaxSteps
    /\ steps' = steps + 1
    /\ UNCHANGED wheelUps

Next ==
    \/ Tick /\ \E ms \in Elapsed : Update(ms)
    \/ Tick /\ \E f \in Keys : SetFlag(f, ~Flag(f))
    \/ Tick /\ GetState
    \/ Tick /\ SetStateSaved
    \/ Tick /\ SetStateLoaded
    \/ Tick /\ \E s \in Sizes : SetSize(s[1], s[2])
    \/ Tick /\ \E d \in DragPanInputs : MouseDragPan(d[1], d[2])
    \/ Tick /\ \E d \in DragRotateInputs : MouseDragRotate(d[1], d[2])
    \/ Tick /\ \E d \in StepWheelInputs : MouseWheel(d)
    \/ Tick /\ \E v \in PanInputs : Pan(v[1], v[2], v[3])
    \/ Tick /\ \E r \in RotateInputs : Rotate(r[1], r[2])

Spec == Init /\ [][Next]_vars

-----------------------------------------------------------------------------
(* SpecWheel: any number of mouse_wheel calls, of which at most MaxWheelUp *)
(* have a positive delta, among at most MaxWheelSteps other operations.    *)

WheelTick ==
    /\ ~panicked
    /\ steps < MaxWheelSteps
    /\ steps' = steps + 1
    /\ UNCHANGED wheelUps

Wheel ==
    /\ ~panicked
    /\ \E d \in WheelInputs :
          /\ d > 0 => wheelUps < MaxWheelUp
          /\ wheelUps' = IF d > 0 THEN wheelUps + 1 ELSE wheelUps
          /\ MouseWheel(d)
    /\ UNCHANGED steps

\* the other operations are called with one input each
WheelKeys == {"moving_forward"}
WheelSizes == {<<2, 4>>}
WheelDrags == {<<1, 0>>}

NextWheel ==
    \/ Wheel
    \/ WheelTick /\ \E ms \in Elapsed : Update(ms)
    \/ WheelTick /\ \E f \in WheelKeys : SetFlag(f, ~Flag(f))
    \/ WheelTick /\ GetState
    \/ WheelTick /\ SetStateLoaded
    \/ WheelTick /\ \E s \in WheelSizes : SetSize(s[1], s[2])
    \/ WheelTick /\ \E d \in WheelDrags : MouseDragPan(d[1], d[2])
    \/ WheelTick /\ \E d \in WheelDrags : MouseDragRotate(d[1], d[2])
    \/ WheelTick /\ \E v \in PanInputs : Pan(v[1], v[2], v[3])
    \/ WheelTick /\ \E r \in RotateInputs : Rotate(r[1], r[2])

SpecWheel == Init /\ [][NextWheel]_vars

-----------------------------------------------------------------------------
(* SpecSaved: every run of at most MaxSteps operations in which set_state  *)
(* is only passed what state() returned earlier, and the renderer asks for *)
(* the view-projection matrix.                                             *)

SavedKeys == {"moving_forward", "turning_left"}
SavedSizes == {<<2, 4>>, <<2, 0>>}

NextSaved ==
    \/ Tick /\ \E ms \in Elapsed : Update(ms)
    \/ Tick /\ \E f \in SavedKeys : SetFlag(f, ~Flag(f))
    \/ Tick /\ GetState
    \/ Tick /\ SetStateSaved
    \/ Tick /\ \E s \in SavedSizes : SetSize(s[1], s[2])
    \/ Tick /\ GetWorldToGl
    \/ Tick /\ \E d \in DragPanInputs : MouseDragPan(d[1], d[2])
    \/ Tick /\ \E d \in DragRotateInputs : MouseDragRotate(d[1], d[2])
    \/ Tick /\ \E d \in StepWheelInputs : MouseWheel(d)
    \/ Tick /\ \E v \in PanInputs : Pan(v[1], v[2], v[3])
    \/ Tick /\ \E r \in RotateInputs : Rotate(r[1], r[2])

SpecSaved == Init /\ [][NextSaved]_vars

-----------------------------------------------------------------------------
(* SpecOrder: runs of at most MaxCalls operations that stage input, resize *)
(* and update, with angular velocities large enough for an f32 sum to      *)
(* round.                                                                  *)

OrderTick ==
    /\ ~panicked
    /\ steps < MaxCalls
    /\ steps' = steps + 1
    /\ UNCHANGED wheelUps

OrderElapsed == {0, 1}                         \* milliseconds
\* rotate(0, 33554.432), rotate(0, -33554.432), rotate(0, 0.001)
OrderRotateInputs == {<<0, 2^25>>, <<0, -(2^25)>>, <<0, 1>>}

NextOrder ==
    \/ OrderTick /\ \E ms \in OrderElapsed : Update(ms)
    \/ OrderTick /\ \E s \in WheelSizes : SetSize(s[1], s[2])
    \/ OrderTick /\ \E d \in WheelDrags : MouseDragPan(d[1], d[2])
    \/ OrderTick /\ \E d \in WheelDrags : MouseDragRotate(d[1], d[2])
    \/ OrderTick /\ \E v \in PanInputs : Pan(v[1], v[2], v[3])
    \/ OrderTick /\ \E r \in OrderRotateInputs : Rotate(r[1], r[2])

SpecOrder == Init /\ [][NextOrder]_vars

-----------------------------------------------------------------------------
(* SpecFrames: runs of at most MaxFrames operations that press and release *)
(* keys and update with frames of one and two milliseconds, on a camera    *)
(* that may have been loaded with a pose many turns away from the initial  *)
(* one.                                                                    *)

FrameTick ==
    /\ ~panicked
    /\ steps < MaxFrames
    /\ steps' = steps + 1
    /\ UNCHANGED wheelUps

FrameElapsed == {1, 2}                         \* milliseconds
FrameKeys == {"turning_left", "moving_forward", "moving_right"}
\* theta = 33.554432 rad, phi = 0.15 rad, at the origin
FarStates ==
    { [transform |-> [scale |-> 1, rot |-> Quat(F(2^25), F(150000)),
                      disp |-> VZero],
       phi |-> F(150000), theta |-> F(2^25)] }

NextFrames ==
    \/ FrameTick /\ \E ms \in FrameElapsed : Update(ms)
    \/ FrameTick /\ \E f \in FrameKeys : SetFlag(f, ~Flag(f))
    \/ FrameTick /\ \E state \in FarStates : SetState(state)

SpecFrames == Init /\ [][NextFrames]_vars

-----------------------------------------------------------------------------
(* Properties.  The history variables tell an update's result from what it *)
(* found: call and ret are the last operation and the last result, before  *)
(* is the camera and the history as the last update found them.            *)

AfterUpdate == call.op = "update"
TurningHeld == \E f \in TurningFlags : Flag(f)

\* what the mouse_drag_rotate calls of a sequence of staging calls add up to:
\* each one -2 pi delta_x / width around, -2 pi delta_y / height up
RECURSIVE DragSum(_)
DragSum(calls) ==
    IF calls = <<>> THEN [theta |-> F(0), phi |-> F(0)]
    ELSE LET c == calls[Len(calls)]
             rest == DragSum(SubSeq(calls, 1, Len(calls) - 1))
         IN  IF c.op = "mouse_drag_rotate"
             THEN [theta |-> FAdd(rest.theta, FNeg(FDivInt(F(TwoPi * c.a), c.w))),
                   phi |-> FAdd(rest.phi, FNeg(FDivInt(F(TwoPi * c.b), c.h)))]
             ELSE rest

DragIsNonzero(calls) ==
    ~FIsZero(DragSum(calls).theta) \/ ~FIsZero(DragSum(calls).phi)

\* C1: after any update the staged accumulators pan, rotation_speed and
\* delta_rotation are all zero, whatever they were when it was called.
C1_Drained ==
    AfterUpdate =>
        /\ FIsZero(pan[1]) /\ FIsZero(pan[2]) /\ FIsZero(pan[3])
        /\ FIsZero(rotation_speed.theta) /\ FIsZero(rotation_speed.phi)
        /\ FIsZero(delta_rotation.theta) /\ FIsZero(delta_rotation.phi)

\* an update that found a pan, an angular velocity and a drag delta staged
\* (the velocity is not applied: the drag wins)
C1_Witness ==
    /\ AfterUpdate
    /\ before.pan # VZero
    /\ ~FIsZero(before.rotation_speed.theta)
    /\ DragIsNonzero(before.staged)

NoInputSince(names) == names \cap (StagingOps \cup {"set_size", "set_state"}) = {}

\* C3: the first update after new returns true; a later update with zero
\* elapsed time, no flag held, and no staging call, set_size or set_state
\* since the update before it, returns false.
C3_DirtyOnce ==
    /\ (AfterUpdate /\ ~before.updates) => ret
    /\ (AfterUpdate /\ before.updates /\ call.args[1] = 0 /\ NoFlagHeld
          /\ NoInputSince(before.since)) => ~ret

\* an idle update that is not the first, right after one that returned true
C3_Witness ==
    /\ AfterUpdate /\ before.updates /\ call.args[1] = 0 /\ NoFlagHeld
    /\ before.call.op = "update" /\ before.ret /\ ~ret

SameUpdateTwice ==
    AfterUpdate /\ before.call.op = "update" /\ before.call.args = call.args

NoMotion ==
    transform = before.transform /\ theta = before.theta /\ phi = before.phi

AtLeastFloor == IsFin(movement_speed) /\ movement_speed[2] >= MinSpeed

\* C5 as claimed: mouse_wheel calls with a negative delta never bring
\* movement_speed down to the floor 0.01 or below it.
C5_AsClaimed == wheelUps = 0 => (IsFin(movement_speed) /\ movement_speed[2] > MinSpeed)

\* C5: mouse_wheel calls with a negative delta never bring movement_speed
\* below the floor 0.01, and never above the 10 it starts at.
C5_NeverBelowFloor ==
    wheelUps = 0 => (AtLeastFloor /\ movement_speed[2] <= InitialSpeed)

\* a negative mouse_wheel call that leaves movement_speed on the floor
C5_Witness ==
    /\ wheelUps = 0 /\ call.op = "mouse_wheel" /\ call.args[1] < 0
    /\ movement_speed = F(MinSpeed)

\* ten times the speed a mouse_wheel call leaves, before the floor, is 11
\* times (delta > 0), 9 times (delta < 0) or 10 times (delta = 0) the speed
\* it found, to the rounding of the unit
WheelScales(old, new, delta) ==
    LET unclamped == (10 + Sgn(delta)) * old[2]
    IN  /\ IsFin(old) /\ IsFin(new)
        /\ \/ /\ new[2] > MinSpeed
              /\ Abs(10 * new[2] - unclamped) <= 5
           \/ /\ new[2] = MinSpeed
              /\ unclamped <= 10 * MinSpeed + 5

\* C6: movement_speed starts at 10, is always positive and at least 0.01;
\* only mouse_wheel changes it (x1.1, x0.9, then the floor), every other
\* operation leaves it as it is.
C6_SpeedOnlyByWheel ==
    /\ movement_speed = F(InitialSpeed)
    /\ [](FGtZero(movement_speed) /\ AtLeastFloor)
    /\ [][ /\ call'.op # "mouse_wheel" => movement_speed' = movement_speed
           /\ call'.op = "mouse_wheel" =>
                 WheelScales(movement_speed, movement_speed', call'.args[1]) ]_vars

\* an operation other than mouse_wheel has run at a speed that is not the
\* initial one
C6_Witness ==
    /\ call.op \in {"update", "set_state", "set_size", "pan", "rotate",
                    "mouse_drag_pan", "mouse_drag_rotate"}
    /\ movement_speed \notin {F(InitialSpeed), F(MinSpeed)}
    /\ wheelUps = 1

\* C7: set_state(state()) leaves transform, theta, phi, movement_speed and
\* the ten flags as they are; state() changes no field of the camera.
C7_RoundTrip ==
    [][ /\ (call'.op = "set_state" /\ call'.args[1] = 1) =>
              /\ transform' = transform /\ theta' = theta /\ phi' = phi
              /\ movement_speed' = movement_speed
              /\ flagVars' = flagVars
        /\ call'.op = "state" => camVars' = camVars ]_vars

\* set_state(state()) on a camera that has turned around and not up
C7_Witness ==
    /\ call.op = "set_state" /\ call.args[1] = 1
    /\ theta # F(0) /\ phi = F(0)

\* C8: set_state writes transform, theta and phi, sets moved and leaves the
\* accumulators (and every other field) alone; the next update returns true
\* and applies a drag staged before the set_state on top of the loaded pose.
C8_SetStateKeepsStaged ==
    /\ [][ call'.op = "set_state" =>
              /\ moved'
              /\ accVars' = accVars
              /\ flagVars' = flagVars /\ sizeVars' = sizeVars
              /\ movement_speed' = movement_speed ]_vars
    /\ []( (AfterUpdate /\ before.call.op = "set_state") =>
              /\ ret
              /\ before.moved
              /\ DragIsNonzero(before.staged) =>
                    /\ theta = FAdd(before.theta, DragSum(before.staged).theta)
                    /\ phi = FAdd(before.phi, DragSum(before.staged).phi)
                    /\ transform.rot = Quat(theta, phi) )

\* an update right after a set_state that loaded another pose while a drag
\* was staged
C8_Witness ==
    /\ AfterUpdate /\ before.call.op = "set_state" /\ before.call.args[1] = 0
    /\ DragIsNonzero(before.staged)
    /\ before.staged[1].op = "mouse_drag_rotate"
    /\ before.theta # F(0) /\ IsFin(theta)

\* C9: set_size changes none of transform, theta, phi and the accumulators,
\* and the update that follows a set_size returns true.
C9_ResizeMarksDirty ==
    /\ [][ call'.op = "set_size" =>
              (poseVars' = poseVars /\ accVars' = accVars) ]_vars
    /\ []( (AfterUpdate /\ "set_size" \in before.since) => ret )

\* a set_size on an idle camera whose last update returned false, then an
\* update with zero elapsed time, no flag held and nothing staged
C9_Witness ==
    /\ AfterUpdate /\ before.call.op = "set_size" /\ ~before.ret
    /\ before.updates /\ before.staged = <<>>
    /\ call.args[1] = 0 /\ NoFlagHeld

\* the accumulators after one staging call c, made at the viewport c.w x c.h
Accumulate(acc, c) ==
    CASE c.op = "mouse_drag_pan" ->
           [acc EXCEPT !.pan =
              << FSub(acc.pan[1], FDivInt(F(DragPanScale * c.a), c.w)),
                 FAdd(acc.pan[2], FDivInt(F(DragPanScale * c.b), c.h)),
                 acc.pan[3] >>]
      [] c.op = "mouse_drag_rotate" ->
           [acc EXCEPT !.delta_rotation =
              [theta |-> FSub(acc.delta_rotation.theta,
                              FDivInt(F(TwoPi * c.a), c.w)),
               phi |-> FSub(acc.delta_rotation.phi,
                            FDivInt(F(TwoPi * c.b), c.h))]]
      [] c.op = "pan" ->
           [acc EXCEPT !.pan = << FAdd(acc.pan[1], F(c.a)),
                                  FAdd(acc.pan[2], F(c.b)),
                                  FAdd(acc.pan[3], F(c.c)) >>]
      [] c.op = "rotate" ->
           [acc EXCEPT !.rotation_speed =
              [theta |-> FAdd(acc.rotation_speed.theta, F(c.b)),
               phi |-> FAdd(acc.rotation_speed.phi, F(c.a))]]

\* the accumulators after a sequence of staging calls made on drained ones
RECURSIVE Accumulated(_)
Accumulated(calls) ==
    IF calls = <<>> THEN Drained
    ELSE Accumulate(Accumulated(SubSeq(calls, 1, Len(calls) - 1)),
                    calls[Len(calls)])

Accumulators ==
    [pan |-> pan, rotation_speed |-> rotation_speed,
     delta_rotation |-> delta_rotation]

Orders(calls) == Permutations(1..Len(calls))
Reordered(calls, q) == [i \in 1..Len(calls) |-> calls[q[i]]]

\* the accumulator a staging call writes
Written(c) ==
    CASE c.op \in {"mouse_drag_pan", "pan"} -> "pan"
      [] c.op = "mouse_drag_rotate" -> "delta_rotation"
      [] c.op = "rotate" -> "rotation_speed"

\* the order q keeps the calls that write the same accumulator in their order
KeepsEachAccumulator(calls, q) ==
    \A i, j \in 1..Len(calls) :
        (i < j /\ Written(calls[q[i]]) = Written(calls[q[j]])) => q[i] < q[j]

\* no sum of the amounts the calls stage can be rounded: each amount that is
\* finite is so small that all of them together stay within the mantissa
Amounts(c) ==
    LET one == Accumulate(Drained, c)
    IN  {one.pan[1], one.pan[2], one.pan[3],
         one.rotation_speed.theta, one.rotation_speed.phi,
         one.delta_rotation.theta, one.delta_rotation.phi}
SumsAreExact(calls) ==
    \A i \in 1..Len(calls) : \A a \in Amounts(calls[i]) :
        IsFin(a) => Abs(a[2]) * Len(calls) <= 2^Mantissa

\* C11 as claimed: the staging calls since the last update leave the same
\* accumulator values in every order they could have been made in.
C11_AsClaimed ==
    \A q \in Orders(staged) : Accumulated(Reordered(staged, q)) = Accumulators

\* C11: the staging calls since the last update leave the same accumulator
\* values in every order that keeps the calls writing the same accumulator
\* in their order (mouse_drag_pan and mouse_drag_rotate commute), and in
\* every order at all when no sum is rounded; the next update finds these
\* values and leaves the accumulators drained.
C11_OrderOfStaging ==
    /\ \A q \in Orders(staged) :
          (KeepsEachAccumulator(staged, q) \/ SumsAreExact(staged)) =>
              Accumulated(Reordered(staged, q)) = Accumulators
    /\ AfterUpdate =>
          /\ staged = <<>> /\ Accumulators = Drained
          /\ \A q \in Orders(before.staged) :
                (KeepsEachAccumulator(before.staged, q)
                   \/ SumsAreExact(before.staged)) =>
                    /\ Accumulated(Reordered(before.staged, q)).pan = before.pan
                    /\ Accumulated(Reordered(before.staged, q)).rotation_speed
                         = before.rotation_speed
                    /\ Accumulated(Reordered(before.staged, q)).delta_rotation
                         = before.delta_rotation

\* an update after mouse_drag_rotate and then mouse_drag_pan, which stage a
\* drag rotation and a pan that are not zero
C11_Witness ==
    /\ AfterUpdate /\ Len(before.staged) = 2
    /\ before.staged[1].op = "mouse_drag_rotate"
    /\ before.staged[2].op = "mouse_drag_pan"
    /\ before.pan # VZero /\ before.delta_rotation # RotationAngle_zero

\* an update right after rotate(up, around), which found no drag delta and no
\* pan staged, with no flag held
RotateThenUpdate ==
    /\ AfterUpdate /\ before.call.op = "rotate"
    /\ before.delta_rotation = RotationAngle_zero
    /\ before.pan = VZero
    /\ NoFlagHeld

\* theta has grown by around * elapsed_seconds and phi by up * elapsed_seconds,
\* the displacement is as it was, and the update returned true if up or
\* around is not zero
TurnedByRotate ==
    LET up == before.call.args[1]
        around == before.call.args[2]
        es == ElapsedSeconds(call.args[1])
    IN  /\ theta = FAdd(before.theta, FMul(F(around), es, 1))
        /\ phi = FAdd(before.phi, FMul(F(up), es, 1))
        /\ transform.disp = before.transform.disp
        /\ (up # 0 \/ around # 0) => ret

\* C12 as claimed: with no drag delta pending, no flag held and no pan
\* staged, rotate(up, around) followed by update(elapsed) increases theta by
\* around * elapsed_seconds and phi by up * elapsed_seconds, leaves the
\* displacement unchanged and returns true when up or around is nonzero.
C12_AsClaimed == RotateThenUpdate => TurnedByRotate

\* C12: the same, when this rotate is the only one since the last update.
C12_RotateThenUpdate ==
    (RotateThenUpdate
       /\ \A i \in 1..(Len(before.staged) - 1) : before.staged[i].op # "rotate")
        => TurnedByRotate

\* rotate(0, pi/2) and update(1 s) on a camera at its initial pose whose last
\* update had cleared moved: theta is pi/2, the displacement still (0, 0, 150)
C12_Witness ==
    /\ RotateThenUpdate /\ before.staged # <<>>
    /\ before.call.args = <<0, 1571, 0>> /\ call.args[1] = 1000
    /\ before.theta = F(0) /\ ~before.moved
    /\ theta = F(1571000) /\ phi = F(0)
    /\ transform.disp = <<F(0), F(0), F(InitialZ)>>
    /\ ret

MovementHeld == \E f \in Flags \ TurningFlags : Flag(f)

\* two updates in a row, the first of which found nothing staged, with only
\* movement flags or only turning flags held
TwoFrames ==
    /\ AfterUpdate /\ before.call.op = "update"
    /\ before.start.staged = <<>>
    /\ ~(MovementHeld /\ TurningHeld)

\* the pose after one update of ms milliseconds on the pose the first of the
\* two updates found, with the flags held now and nothing staged (the two
\* updates have left the accumulators drained, and the rotation as it was
\* when no turning flag is held)
SingleFrame(ms) ==
    LET es == ElapsedSeconds(ms)
    IN  [theta |-> IF RotationApplies(SpeedWithKeys)
                   THEN FAdd(before.start.theta, FMul(SpeedWithKeys.theta, es, 1))
                   ELSE before.start.theta,
         phi |-> IF RotationApplies(SpeedWithKeys)
                 THEN FAdd(before.start.phi, FMul(SpeedWithKeys.phi, es, 1))
                 ELSE before.start.phi,
         disp |-> IF PanApplies(PanWithKeys)
                  THEN VAdd(before.start.transform.disp,
                            Translation(PanWithKeys, es))
                  ELSE before.start.transform.disp]

BothFrames == SingleFrame(before.call.args[1] + call.args[1])

\* a and b are the same f32 value, or finite and no more than two
\* neighbouring f32 values apart
Near(a, b) ==
    \/ a = b
    \/ IsFin(a) /\ IsFin(b) /\ Abs(a[2] - b[2]) <= 2 * Spacing(b[2])

C14_Invertible ==
    /\ transform.scale = 1
    /\ ~InverseTransformIsNone(transform)
    /\ call.op = "get_world_to_gl" => ~panicked

\* get_world_to_gl on a camera that was loaded from a snapshot since the
\* last update
C14_Witness ==
    /\ call.op = "get_world_to_gl" /\ ~panicked
    /\ "set_state" \in since /\ snapshot # <<>>
    /\ transform = snapshot.transform

\* the accumulator component old has become new by adding amount / dim: to
\* the rounding of the unit when dim is not zero; an infinity or NaN is
\* staged when it is
StagedBy(old, new, amount, dim) ==
    IF dim # 0 /\ IsFin(old)
    THEN /\ IsFin(new)
         /\ 2 * Abs((new[2] - old[2]) * dim - amount) <= Abs(dim)
    ELSE IF dim # 0 THEN new = old
    ELSE ~IsFin(new)

\* C15: mouse_drag_pan(dx, dy) changes pan.x by -100 dx / width and pan.y by
\* +100 dy / height and nothing else; mouse_drag_rotate(dx, dy) changes
\* delta_rotation.theta by -2 pi dx / width and delta_rotation.phi by
\* -2 pi dy / height and nothing else, width and height being the viewport
\* of the last set_size.
C15_DragScaling ==
    [][ /\ call'.op = "mouse_drag_pan" =>
              /\ StagedBy(pan[1], pan'[1], -DragPanScale * call'.args[1], width)
              /\ StagedBy(pan[2], pan'[2], DragPanScale * call'.args[2], height)
              /\ pan'[3] = pan[3]
              /\ delta_rotation' = delta_rotation
              /\ rotation_speed' = rotation_speed
        /\ call'.op = "mouse_drag_rotate" =>
              /\ StagedBy(delta_rotation.theta, delta_rotation'.theta,
                          -TwoPi * call'.args[1], width)
              /\ StagedBy(delta_rotation.phi, delta_rotation'.phi,
                          -TwoPi * call'.args[2], height)
              /\ pan' = pan
              /\ rotation_speed' = rotation_speed ]_vars

\* the same one-pixel drag to the right staged on a viewport 4 wide and then
\* on one 2 wide: the second stages twice the pan.x of the first
C15_Witness ==
    /\ call.op = "mouse_drag_pan" /\ Len(staged) = 2
    /\ staged[1] = [op |-> "mouse_drag_pan", a |-> 1, b |-> 0, c |-> 0,
                    w |-> 4, h |-> 2]
    /\ staged[2] = [op |-> "mouse_drag_pan", a |-> 1, b |-> 0, c |-> 0,
                    w |-> 2, h |-> 4]
    /\ pan[1] = F(-2500 - 5000)

\* C16: when update returns false, the transform, theta, phi and the
\* projection matrix are what they were at the end of the update before it.
C16_FalseMeansSame == (AfterUpdate /\ ~ret) => View = before.shown

\* update returns false although the mouse was dragged since the update
\* before it, because the drags cancel out
C16_Witness ==
    /\ AfterUpdate /\ ~ret /\ before.updates
    /\ "mouse_drag_rotate" \in before.since

\* C17: when set_state is only passed earlier state() snapshots,
\* transform.rot is Rz(theta) * Rx(phi) in every reachable state; an
\* operation that changes the rotation, theta or phi leaves the rotation
\* rebuilt from the theta and phi it leaves.
C17_Lockstep ==
    /\ [](transform.rot = Quat(theta, phi))
    /\ [][ (transform'.rot # transform.rot \/ theta' # theta \/ phi' # phi)
              => transform'.rot = Quat(theta', phi') ]_vars

\* an update has turned the camera by a drag, after the pose was loaded
\* from a snapshot
C17_Witness ==
    /\ AfterUpdate /\ "set_state" \in before.since
    /\ DragIsNonzero(before.staged)
    /\ <<theta, phi>> # <<before.theta, before.phi>>
    /\ IsFin(theta) /\ IsFin(phi)

\* the pan the last update applied: the staged one it found plus the
\* normalized pan of the movement flags, scaled by movement_speed and the
\* elapsed seconds
PanApplied ==
    LET k == KeyPan
        p == IF k[1] * k[1] + k[2] * k[2] + k[3] * k[3] > 0
             THEN VAdd(before.pan, Normalize(k))
             ELSE before.pan
    IN  [pan |-> p,
         scaled |-> VScale(VScale(p, movement_speed, 1000),
                           ElapsedSeconds(call.args[1]), 1)]

\* C18: an update that applies a pan adds to the displacement the scaled pan
\* rotated by the rotation it found, also when it goes on to turn the
\* camera: the rotation it leaves plays no part.
C18_PanBeforeTurn ==
    (AfterUpdate /\ FGtZero(Magnitude2(PanApplied.pan))) =>
        transform.disp =
            VAdd(before.transform.disp,
                 RotateVector(before.transform.rot, PanApplied.scaled))

\* an update that applied a pan and a drag rotation, where the rotation it
\* left would have taken the pan somewhere else
C18_Witness ==
    /\ AfterUpdate /\ FGtZero(Magnitude2(PanApplied.pan))
    /\ DragIsNonzero(before.staged)
    /\ transform.rot # before.transform.rot
    /\ VFinite(transform.disp)
    /\ RotateVector(transform.rot, PanApplied.scaled)
         # RotateVector(before.transform.rot, PanApplied.scaled)

\* C19: update leaves the ten flags, width, height and the projection
\* matrix as it found them.
C19_UpdateReadsOnly ==
    [][ call'.op = "update" =>
            (flagVars' = flagVars /\ sizeVars' = sizeVars) ]_vars

\* an update that turned the camera for a held key, on a viewport that
\* set_size has changed
C19_Witness ==
    /\ AfterUpdate /\ turning_left /\ theta # before.theta
    /\ "set_size" \in before.since /\ <<width, height>> = <<2, 4>>

RotateStaged(calls) == \E i \in 1..Len(calls) : calls[i].op = "rotate"

\* C20: an update that finds a drag delta that is not zero together with an
\* angular velocity (staged by rotate, or of a held turning key) turns the
\* camera by the drag delta alone and leaves rotation_speed zero; an update
\* that follows it with nothing staged and no flag held turns nothing, so
\* the velocity is not applied later either.
C20_VelocityDiscarded ==
    /\ (AfterUpdate
          /\ (~FIsZero(before.delta_rotation.theta)
                 \/ ~FIsZero(before.delta_rotation.phi))
          /\ (RotateStaged(before.staged) \/ TurningHeld)) =>
            /\ theta = FAdd(before.theta, before.delta_rotation.theta)
            /\ phi = FAdd(before.phi, before.delta_rotation.phi)
            /\ rotation_speed = RotationAngle_zero
    /\ (AfterUpdate /\ before.call.op = "update"
          /\ DragIsNonzero(before.start.staged)
          /\ RotateStaged(before.start.staged)
          /\ NoFlagHeld) =>
            /\ theta = before.theta /\ phi = before.phi
            /\ theta = FAdd(before.start.theta,
                            DragSum(before.start.staged).theta)
            /\ phi = FAdd(before.start.phi, DragSum(before.start.staged).phi)

\* rotate and a drag, then two updates of one second: the second finds
\* nothing left of the velocity
C20_Witness ==
    /\ AfterUpdate /\ before.call.op = "update"
    /\ before.call.args[1] = 1000 /\ call.args[1] = 1000
    /\ DragIsNonzero(before.start.staged)
    /\ RotateStaged(before.start.staged)
    /\ NoFlagHeld /\ IsFin(theta) /\ theta # before.start.theta

\* C10: a set_size that is passed a height <= 0 fails or stores a height of
\* at least 1.
C10_AsClaimed ==
    (call.op = "set_size" /\ call.args[2] <= 0) => (panicked \/ height >= 1)

====
